---- MODULE Spec2Model ----
(***************************************************************************)
(* Model of the movie backend: accounts, session tokens, the               *)
(* authenticateUser gate, the watchlist ledger and the comment ledger.     *)
(*                                                                         *)
(* The repository holds four snapshots of the server:                      *)
(*   "first"   src/server.js 1-140    (login returns the stored token,     *)
(*                                     logout writes null)                 *)
(*   "second"  src/server.js 142-481  (login rotates the token, watchlist  *)
(*                                     and comments, no logout)            *)
(*   "third"   src/server.js 483-857  (as second; POST /comments always    *)
(*                                     creates a thread record)            *)
(*   "part000" src/unnamed/part_000   (login rotates, logout writes "0")   *)
(* `variant` selects the snapshot that runs; it never changes.             *)
(* The second and the third snapshot have the two ledgers and their reads  *)
(* (GET /users/:userId/watchlist, GET /comments/:movieId).                 *)
(*                                                                         *)
(* Every `await` of a handler is an interleaving point: a request in       *)
(* flight sits in a slot of `req` between two store calls.  The first      *)
(* store call of a request is taken in the step that starts it.            *)
(*                                                                         *)
(* Strings are sequences of one-character strings, so that trim and the    *)
(* length validators are computed.  Tokens are numbers: crypto.randomBytes *)
(* (128) is modelled as a fresh value per call (nextTok).                  *)
(***************************************************************************)
EXTENDS Integers, Sequences, FiniteSets, TLC

VARIABLES variant, users, watch, ratings, req, resp, nextTok, nextCid, clock,
          issued, loggedOut

vars == <<variant, users, watch, ratings, req, resp, nextTok, nextCid, clock,
          issued, loggedOut>>

db == <<users, watch, ratings>>

(* ------------------------------ bounds -------------------------------- *)
MaxUsers == 2
MaxTokens == 3
MaxInflight == 2
MaxWatch == 2
MaxRatings == 2
MaxComments == 2
MaxClock == 1

(* ------------------------- program constants -------------------------- *)
\* the literal "0" logout writes in part_000
Sentinel0 == 0
\* the null logout writes in the first snapshot
Null == -1
\* req.header("Authorization") of a request without the header
Undefined == -2

ERR_LOGIN_FAILED == "Username and/or password incorrect"
ERR_CREATE_USER_FAILED == "Could not create user"
ERR_AUTHENTICATION == "Authentication error"
ERR_UNABLE_TO_SAVE_ITEM == "Could not save/update item"
ERR_NO_DATA_FOUND == "No data found"
ERR_INVALID_REQUEST == "Invalid request"
\* JSON of a thrown Error object: res.json({ error: err }) gives {"error":{}}
ErrorObject == "{}"

Variants == {"second", "part000", "first", "third"}

Rotates(v) == v # "first"
HasLogout(v) == v \in {"first", "part000"}
HasLedger(v) == v \in {"second", "third"}
UniqueUsername(v) == v \in {"second", "third"}
UniqueEmail(v) == v \in {"first", "part000"}
TrimUsername(v) == v # "first"
TrimEmail(v) == v # "first"
TrimPassword(v) == v # "first"
LogoutValue(v) == IF v = "first" THEN Null ELSE Sentinel0

(* ------------------------------ strings ------------------------------- *)
Missing == <<"undefined">>

RECURSIVE TrimLeft(_)
TrimLeft(s) == IF s # <<>> /\ Head(s) = " " THEN TrimLeft(Tail(s)) ELSE s

RECURSIVE TrimRight(_)
TrimRight(s) ==
  IF s # <<>> /\ s[Len(s)] = " " THEN TrimRight(SubSeq(s, 1, Len(s) - 1)) ELSE s

\* String.prototype.trim, the setter of a schema path with trim: true
Trim(s) == IF s = Missing THEN s ELSE TrimRight(TrimLeft(s))

SetUsername(v, s) == IF TrimUsername(v) THEN Trim(s) ELSE s
SetEmail(v, s) == IF TrimEmail(v) THEN Trim(s) ELSE s
SetPassword(v, s) == IF TrimPassword(v) THEN Trim(s) ELSE s

MinUsername(v) == 2
MaxUsername(v) == 50
MinPassword(v) == IF v \in {"second", "third"} THEN 6 ELSE 5
MaxPassword(v) == CASE v = "first" -> 50
                    [] v = "part000" -> 130
                    [] OTHER -> 60
\* only the second snapshot bounds the length of the email
EmailLength(v, s) == v = "second" => (Len(s) >= 5 /\ Len(s) <= 100)

Required(s) == s # Missing /\ s # <<>>

\* the schema validators, run on the values the setters produced
Valid(v, doc) ==
  /\ Required(doc.username)
  /\ Len(doc.username) >= MinUsername(v) /\ Len(doc.username) <= MaxUsername(v)
  /\ Required(doc.email)
  /\ EmailLength(v, doc.email)
  /\ Required(doc.password)
  /\ Len(doc.password) >= MinPassword(v) /\ Len(doc.password) <= MaxPassword(v)

(* ------------------------------- bcrypt ------------------------------- *)
\* bcrypt.hashSync: the hash is a string that is not the plaintext; the salt
\* is carried inside it, so compareSync decides by the plaintext alone
HashSync(p) == <<"$2b$">> \o p

\* bcrypt.compareSync(data, hash): throws when data is undefined
CompareSyncAny(data, hash) == IF data = Missing THEN "throw" ELSE "match"

CompareSync(data, hash) ==
  IF data = Missing THEN "throw"
  ELSE IF HashSync(data) = hash THEN "match" ELSE "mismatch"

\* userSchema.pre("save"): hash only when the password path is modified
PreSaveAlways(doc, modified) == [doc EXCEPT !.password = HashSync(doc.password)]

PreSave(doc, modified) ==
  IF "password" \notin modified THEN doc
  ELSE [doc EXCEPT !.password = HashSync(doc.password)]

(* ---------------------------- the store ------------------------------- *)
Ids(s) == 1..Len(s)

\* findOne, updateOne, findOneAndUpdate act on the first of the matching
\* documents S (ids in insertion order), 0 when there is none
FirstMatch(S) ==
  IF S = {} THEN 0 ELSE CHOOSE i \in S : \A j \in S : i <= j

\* the driver writes undefined in a filter as null
Bson(x) == IF x = Undefined THEN Null ELSE x

\* User.findOne({ accessToken: req.header("Authorization") })
AuthenticateFirstUser(us, hdr) == FirstMatch(Ids(us))

AuthenticateUser(us, hdr) ==
  FirstMatch({i \in Ids(us) : us[i].accessToken = Bson(hdr)})

\* User.findOne({ username }): the query value goes through the path's setter
FindByUsername(v, us, name) ==
  FirstMatch({i \in Ids(us) : us[i].username = SetUsername(v, name)})

\* the unique indexes of the users collection
DuplicateKey(v, us, doc) ==
  \/ UniqueUsername(v) /\ \E i \in Ids(us) : us[i].username = doc.username
  \/ UniqueEmail(v) /\ \E i \in Ids(us) : us[i].email = doc.email

(* ------------------------------ inputs -------------------------------- *)
Usernames == { <<"a", "l">>, <<"b", "o">> }
Emails == { <<"a", "@", "x", ".", "c">>, <<"b", "@", "x", ".", "c">> }
Secret == <<"s", "e", "c", "r", "e", "t">>
Passwords == { Secret, <<" ">> \o Secret, <<"p", "w">> }
LoginPasswords == Passwords \cup {Missing}

\* what a client can put in the Authorization header: a token it was given,
\* any other string (such as "0"), or nothing
Credentials == (1..MaxTokens) \cup {Sentinel0, Undefined}

Slots == 1..MaxInflight

NoUser == [username |-> <<>>, email |-> <<>>, password |-> <<>>,
           accessToken |-> Null]

IdleReq == [op |-> "idle", pc |-> "idle", hdr |-> Null, acct |-> 0,
            authed |-> FALSE,
            userId |-> 0, movieId |-> 0, watchlist |-> FALSE, bodyUserId |-> 0,
            cid |-> 0, token |-> Null, snap |-> NoUser, password |-> <<>>]

\* nModified is not part of every body: it records whether the store call
\* behind the response changed a document.  userId and movieId are the
\* parameters of a read, list the documents its body carries
NoResp == [op |-> "none", status |-> 0, acct |-> 0, token |-> Null,
           error |-> "", nModified |-> 0, userId |-> 0, movieId |-> 0,
           list |-> <<>>]

Reply(op, status, error) ==
  [NoResp EXCEPT !.op = op, !.status = status, !.error = error]

Idle(s) == req[s].op = "idle"

\* a request takes the lowest free slot
FreeSlot(s) == Idle(s) /\ \A t \in 1..(s - 1) : ~Idle(t)

(* ------------------------------- Init --------------------------------- *)
Init ==
  /\ variant \in Variants
  /\ users = <<>>
  /\ watch = <<>>
  /\ ratings = <<>>
  /\ req = [s \in Slots |-> IdleReq]
  /\ resp = NoResp
  /\ nextTok = 1
  /\ nextCid = 1
  /\ clock = 0
  /\ issued = <<>>
  /\ loggedOut = {}

(* ------------------------------ POST /users --------------------------- *)
\* new User({username, email, password}): the setters run on assignment, the
\* accessToken default draws a token (a token drawn for a document that is
\* never stored is never seen, so only a stored document advances nextTok)
NewUser(v, u, e, p, tok) ==
  [username |-> SetUsername(v, u), email |-> SetEmail(v, e),
   password |-> SetPassword(v, p), accessToken |-> tok]

AllPaths == {"username", "email", "password", "accessToken"}

\* .save() of a new document: validators, the pre-save hook, then the insert
\* under the unique indexes
SignupOk(v, us, u, e, p) ==
  /\ Valid(v, NewUser(v, u, e, p, Null))
  /\ ~DuplicateKey(v, us, NewUser(v, u, e, p, Null))

Inserted(v, us, u, e, p, tok) ==
  Append(us, PreSave(NewUser(v, u, e, p, tok), AllPaths))

Signup ==
  \E u \in Usernames, e \in Emails, p \in Passwords :
    /\ nextTok <= MaxTokens
    /\ Len(users) < MaxUsers
    /\ IF SignupOk(variant, users, u, e, p)
       THEN /\ users' = Inserted(variant, users, u, e, p, nextTok)
            /\ nextTok' = nextTok + 1
            /\ issued' = Append(issued, {nextTok})
            /\ resp' = [Reply("signup", 201, "") EXCEPT
                          !.acct = Len(users) + 1, !.token = nextTok]
       ELSE /\ UNCHANGED <<users, issued, nextTok>>
            /\ resp' = Reply("signup", 400, ERR_CREATE_USER_FAILED)
    /\ UNCHANGED <<variant, watch, ratings, req, nextCid, clock, loggedOut>>

(* ----------------------------- POST /sessions ------------------------ *)
\* const user = await User.findOne({ username });
\* user && bcrypt.compareSync(password, user.password)
LoginCheck(v, us, u, p) ==
  LET a == FindByUsername(v, us, u)
  IN  IF a = 0 THEN "unknown" ELSE CompareSync(p, us[a].password)

\* catch (err) { res.status(404).json({ error: err }) }: err is the thrown
\* ERR_LOGIN_FAILED string, or the Error bcrypt threw
LoginFailure(outcome) ==
  IF outcome = "throw" THEN ErrorObject ELSE ERR_LOGIN_FAILED

\* user.accessToken = crypto.randomBytes(128).toString("hex"); the first
\* snapshot answers with the stored token
NewToken(v, stored, fresh) == IF Rotates(v) THEN fresh ELSE stored

\* user.save() of a loaded document: the pre-save hook runs, then the
\* modified paths are written to the document with the same _id
SaveLoaded(us, a, doc, modified) ==
  LET saved == PreSave(doc, modified)
      dirty == modified \cup
               (IF saved.password # doc.password THEN {"password"} ELSE {})
  IN  [us EXCEPT ![a] =
         [@ EXCEPT !.accessToken =
                     IF "accessToken" \in dirty THEN saved.accessToken ELSE @,
                   !.password =
                     IF "password" \in dirty THEN saved.password ELSE @]]

LoginStart(s) ==
  \E u \in Usernames, p \in LoginPasswords :
    LET outcome == LoginCheck(variant, users, u, p)
        a == FindByUsername(variant, users, u)
    IN  /\ FreeSlot(s)
        /\ IF outcome = "match"
           THEN IF Rotates(variant)
                THEN /\ nextTok <= MaxTokens
                     /\ nextTok' = nextTok + 1
                     /\ req' = [req EXCEPT ![s] =
                          [IdleReq EXCEPT !.op = "login", !.pc = "save",
                             !.acct = a, !.password = p,
                             !.token = NewToken(variant, users[a].accessToken, nextTok),
                             !.snap = users[a]]]
                     /\ UNCHANGED <<resp, issued>>
                ELSE /\ resp' = [Reply("login", 201, "") EXCEPT
                                   !.acct = a,
                                   !.token = NewToken(variant, users[a].accessToken, nextTok)]
                     /\ issued' = [issued EXCEPT ![a] = @ \cup {resp'.token}]
                     /\ UNCHANGED <<req, nextTok>>
           ELSE /\ resp' = [Reply("login", 404, LoginFailure(outcome)) EXCEPT
                              !.acct = a]
                /\ UNCHANGED <<req, nextTok, issued>>
        /\ UNCHANGED <<variant, users, watch, ratings, nextCid, clock, loggedOut>>

\* const updatedUser = await user.save()
LoginSave(s) ==
  /\ req[s].op = "login" /\ req[s].pc = "save"
  /\ LET doc == [req[s].snap EXCEPT !.accessToken = req[s].token]
     IN  /\ users' = SaveLoaded(users, req[s].acct, doc, {"accessToken"})
         /\ req' = [req EXCEPT ![s].pc = "respond"]
  /\ UNCHANGED <<variant, watch, ratings, resp, nextTok, nextCid, clock,
                 issued, loggedOut>>

\* res.status(201).json({ login: "success", accessToken: updatedUser.accessToken })
LoginRespond(s) ==
  /\ req[s].op = "login" /\ req[s].pc = "respond"
  /\ resp' = [Reply("login", 201, "") EXCEPT
                !.acct = req[s].acct, !.token = req[s].token]
  /\ issued' = [issued EXCEPT ![req[s].acct] = @ \cup {req[s].token}]
  /\ req' = [req EXCEPT ![s] = IdleReq]
  /\ UNCHANGED <<variant, users, watch, ratings, nextTok, nextCid, clock, loggedOut>>

(* ------------------------ the authenticateUser gate ------------------- *)
\* authenticateUser in front of a handler: next() only when a user was found
GateOpen(us, hdr) == TRUE

Gate(us, hdr) == AuthenticateUser(us, hdr) # 0

(* ------------------- POST /users/logout, /sessions/logout ------------- *)
\* User.updateOne({ accessToken: accessToken }, { accessToken: <value> })
UpdateOneTokenNoop(us, hdr, value) == us

UpdateOneToken(us, hdr, value) ==
  LET a == AuthenticateUser(us, hdr)
  IN  IF a = 0 THEN us ELSE [us EXCEPT ![a].accessToken = value]

\* the authenticateUser middleware in front of the logout handler
LogoutStart(s) ==
  \E hdr \in Credentials :
    LET a == AuthenticateUser(users, hdr)
    IN  /\ HasLogout(variant)
        /\ FreeSlot(s)
        /\ IF Gate(users, hdr)
           THEN /\ req' = [req EXCEPT ![s] =
                     [IdleReq EXCEPT !.op = "logout", !.pc = "update",
                                     !.hdr = hdr, !.acct = a, !.authed = a # 0]]
                /\ UNCHANGED resp
           ELSE /\ resp' = Reply("logout", 401, ERR_AUTHENTICATION)
                /\ UNCHANGED req
        /\ UNCHANGED <<variant, users, watch, ratings, nextTok, nextCid, clock,
                       issued, loggedOut>>

LogoutUpdate(s) ==
  /\ req[s].op = "logout" /\ req[s].pc = "update"
  /\ users' = UpdateOneToken(users, req[s].hdr, LogoutValue(variant))
  /\ resp' = [Reply("logout", 201, "") EXCEPT
                !.acct = req[s].acct, !.token = req[s].hdr]
  /\ loggedOut' = loggedOut \cup {req[s].hdr}
  /\ req' = [req EXCEPT ![s] = IdleReq]
  /\ UNCHANGED <<variant, watch, ratings, nextTok, nextCid, clock, issued>>

UserIds == 1..MaxUsers
Movies == {42, 7}
WatchMovies == {42}

InFlight(op, pc) == {s \in Slots : req[s].op = op /\ req[s].pc = pc}

\* nModified of the result of an update: whether the store call changed a
\* document
NModifiedOk(before, after) == 1

NModified(before, after) == IF after = before THEN 0 ELSE 1

(* ---------------------- PUT /users/:userId/watchlist ------------------ *)
IsPair(d, uid, m) == d.userId = uid /\ d.movieId = m

\* WatchMovie.findOne({ userId, movieId })
FindNoWatch(w, uid, m) == 0

FindWatch(w, uid, m) ==
  FirstMatch({i \in Ids(w) : IsPair(w[i], uid, m)})

\* WatchMovie.findOneAndUpdate({ userId, movieId }, req.body): every schema
\* path the body carries is set on the first matching document
ApplyBodyToggle(d, r) == [d EXCEPT !.watchlist = ~@]

ApplyBody(d, r) ==
  [d EXCEPT !.movieId = r.movieId, !.watchlist = r.watchlist,
            !.userId = IF r.bodyUserId = 0 THEN @ ELSE r.bodyUserId]

FindOneAndInsertWatch(w, r) ==
  Append(w, [userId |-> r.userId, movieId |-> r.movieId,
             watchlist |-> r.watchlist])

FindOneAndUpdateWatch(w, r) ==
  LET i == FindWatch(w, r.userId, r.movieId)
  IN  IF i = 0 THEN w ELSE [w EXCEPT ![i] = ApplyBody(@, r)]

\* H: the Authorization headers of the requests; B: the userId values the
\* body may carry (0: the body has no userId)
PutStartIn(s, H, B) ==
  \E hdr \in H, uid \in UserIds, m \in WatchMovies, w \in BOOLEAN,
     b \in B :
    /\ HasLedger(variant)
    /\ FreeSlot(s)
    /\ IF Gate(users, hdr)
       THEN /\ req' = [req EXCEPT ![s] =
                 [IdleReq EXCEPT !.op = "put", !.pc = "find", !.userId = uid,
                    !.movieId = m, !.watchlist = w, !.bodyUserId = b,
                    !.hdr = hdr, !.acct = AuthenticateUser(users, hdr),
                    !.authed = AuthenticateUser(users, hdr) # 0]]
            /\ UNCHANGED resp
       ELSE /\ resp' = Reply("put", 401, ERR_AUTHENTICATION)
            /\ UNCHANGED req
    /\ UNCHANGED <<variant, users, watch, ratings, nextTok, nextCid, clock,
                   issued, loggedOut>>

PutStart(s) == PutStartIn(s, Credentials, {0} \cup UserIds)

\* const watchlistExist = await WatchMovie.findOne(...)
PutFind(s) ==
  /\ req[s].op = "put" /\ req[s].pc = "find"
  /\ IF FindWatch(watch, req[s].userId, req[s].movieId) = 0
     THEN /\ Len(watch) + Cardinality(InFlight("put", "create")) < MaxWatch
          /\ req' = [req EXCEPT ![s].pc = "create"]
     ELSE req' = [req EXCEPT ![s].pc = "update"]
  /\ UNCHANGED <<variant, users, watch, ratings, resp, nextTok, nextCid, clock,
                 issued, loggedOut>>

\* new WatchMovie({ userId, movieId, watchlist }).save(): the document is
\* inserted whatever the flag is
SaveWatchOptIn(w, r) ==
  IF r.watchlist
  THEN Append(w, [userId |-> r.userId, movieId |-> r.movieId,
                  watchlist |-> r.watchlist])
  ELSE w

SaveWatchOfUser(w, r) ==
  Append(w, [userId |-> r.acct, movieId |-> r.movieId,
             watchlist |-> r.watchlist])

SaveWatch(w, r) ==
  Append(w, [userId |-> r.userId, movieId |-> r.movieId,
             watchlist |-> r.watchlist])

\* const movie = await new WatchMovie({ userId, movieId, watchlist }).save()
PutCreate(s) ==
  /\ req[s].op = "put" /\ req[s].pc = "create"
  /\ watch' = SaveWatch(watch, req[s])
  /\ resp' = Reply("put", 201, "created")
  /\ req' = [req EXCEPT ![s] = IdleReq]
  /\ UNCHANGED <<variant, users, ratings, nextTok, nextCid, clock, issued,
                 loggedOut>>

PutUpdate(s) ==
  /\ req[s].op = "put" /\ req[s].pc = "update"
  /\ watch' = FindOneAndUpdateWatch(watch, req[s])
  /\ resp' = [Reply("put", IF variant = "third" THEN 200 ELSE 201, "updated")
                EXCEPT !.nModified = NModified(watch, watch')]
  /\ req' = [req EXCEPT ![s] = IdleReq]
  /\ UNCHANGED <<variant, users, ratings, nextTok, nextCid, clock, issued,
                 loggedOut>>

(* ------------------------ POST /comments/:movieId --------------------- *)
\* Rating.findOne({ userId, movieId })
FindRating(r, uid, m) ==
  FirstMatch({i \in Ids(r) : IsPair(r[i], uid, m)})

\* { $push: { comments: { comment, username } } } on the first matching thread
PushCommentLast(r, uid, m, c) ==
  LET S == {i \in Ids(r) : IsPair(r[i], uid, m)}
  IN  IF S = {} THEN r
      ELSE [r EXCEPT ![CHOOSE i \in S : \A j \in S : j <= i].comments =
                       Append(@, c)]

SetComments(r, uid, m, c) ==
  LET i == FindRating(r, uid, m)
  IN  IF i = 0 THEN r ELSE [r EXCEPT ![i].comments = <<c>>]

PushComment(r, uid, m, c) ==
  LET i == FindRating(r, uid, m)
  IN  IF i = 0 THEN r ELSE [r EXCEPT ![i].comments = Append(@, c)]

\* { $pull: { comments: { _id } } } on the first matching thread
PullAllComments(r, uid, m, cid) ==
  LET i == FindRating(r, uid, m)
  IN  IF i = 0 THEN r ELSE [r EXCEPT ![i].comments = <<>>]

PullComment(r, uid, m, cid) ==
  LET i == FindRating(r, uid, m)
      Keep(c) == c.id # cid
  IN  IF i = 0 THEN r ELSE [r EXCEPT ![i].comments = SelectSeq(@, Keep)]

PostStartIn(s, H, M) ==
  \E hdr \in H, uid \in UserIds, m \in M :
    /\ HasLedger(variant)
    /\ FreeSlot(s)
    /\ IF Gate(users, hdr)
       THEN /\ req' = [req EXCEPT ![s] =
                 [IdleReq EXCEPT !.op = "post", !.userId = uid, !.movieId = m,
                    !.pc = IF variant = "third" THEN "create" ELSE "find",
                    !.hdr = hdr, !.acct = AuthenticateUser(users, hdr),
                    !.authed = AuthenticateUser(users, hdr) # 0]]
            /\ UNCHANGED resp
       ELSE /\ resp' = Reply("post", 401, ERR_AUTHENTICATION)
            /\ UNCHANGED req
    /\ UNCHANGED <<variant, users, watch, ratings, nextTok, nextCid, clock,
                   issued, loggedOut>>

PostStart(s) == PostStartIn(s, Credentials, Movies)

\* const ratingExist = await Rating.findOne(...)
PostFind(s) ==
  /\ req[s].op = "post" /\ req[s].pc = "find"
  /\ req' = [req EXCEPT ![s].pc =
               IF FindRating(ratings, req[s].userId, req[s].movieId) = 0
               THEN "create" ELSE "push"]
  /\ UNCHANGED <<variant, users, watch, ratings, resp, nextTok, nextCid, clock,
                 issued, loggedOut>>

\* await new Rating({ userId, movieId }).save()
PostCreate(s) ==
  /\ req[s].op = "post" /\ req[s].pc = "create"
  /\ Len(ratings) < MaxRatings
  /\ ratings' = Append(ratings, [userId |-> req[s].userId,
                                 movieId |-> req[s].movieId,
                                 comments |-> <<>>])
  /\ req' = [req EXCEPT ![s].pc = "push"]
  /\ UNCHANGED <<variant, users, watch, resp, nextTok, nextCid, clock, issued,
                 loggedOut>>

\* Rating.findOneAndUpdate / updateOne with $push; createdAt defaults to Date.now
PostPush(s) ==
  \E now \in {clock, clock + 1} :
    /\ req[s].op = "post" /\ req[s].pc = "push"
    /\ nextCid <= MaxComments
    /\ now <= MaxClock
    /\ clock' = now
    /\ nextCid' = nextCid + 1
    /\ ratings' = PushComment(ratings, req[s].userId, req[s].movieId,
                              [id |-> nextCid, createdAt |-> now])
    /\ resp' = Reply("post", 201, "")
    /\ req' = [req EXCEPT ![s] = IdleReq]
    /\ UNCHANGED <<variant, users, watch, nextTok, issued, loggedOut>>

(* ----------------------- DELETE /comments/:movieId -------------------- *)
DeleteStartIn(s, H, M) ==
  \E hdr \in H, uid \in UserIds, m \in M, cid \in 1..MaxComments :
    /\ HasLedger(variant)
    /\ FreeSlot(s)
    /\ IF Gate(users, hdr)
       THEN /\ req' = [req EXCEPT ![s] =
                 [IdleReq EXCEPT !.op = "delete", !.pc = "pull", !.userId = uid,
                    !.movieId = m, !.cid = cid,
                    !.hdr = hdr, !.acct = AuthenticateUser(users, hdr),
                    !.authed = AuthenticateUser(users, hdr) # 0]]
            /\ UNCHANGED resp
       ELSE /\ resp' = Reply("delete", 401, ERR_AUTHENTICATION)
            /\ UNCHANGED req
    /\ UNCHANGED <<variant, users, watch, ratings, nextTok, nextCid, clock,
                   issued, loggedOut>>

DeleteStart(s) == DeleteStartIn(s, Credentials, Movies)

\* const deleteComment = await Rating.updateOne(..., { $pull: ... }): the
\* result object is truthy whether or not a comment was pulled
DeletePull(s) ==
  /\ req[s].op = "delete" /\ req[s].pc = "pull"
  /\ ratings' = PullComment(ratings, req[s].userId, req[s].movieId, req[s].cid)
  /\ resp' = [Reply("delete", 200, "") EXCEPT
                !.nModified = NModified(ratings, ratings')]
  /\ req' = [req EXCEPT ![s] = IdleReq]
  /\ UNCHANGED <<variant, users, watch, nextTok, nextCid, clock, issued,
                 loggedOut>>

(* ---------------------- GET /users/:userId/watchlist ------------------ *)
\* WatchMovie.find({ userId, watchlist: true }): the matching documents in
\* insertion order
ListWantedAnyOwner(w, uid) ==
  LET Wanted(d) == d.watchlist
  IN  SelectSeq(w, Wanted)

ListWanted(w, uid) ==
  LET Wanted(d) == d.userId = uid /\ d.watchlist
  IN  SelectSeq(w, Wanted)

\* the authenticateUser middleware in front of the handler
GetWatchlistStartIn(s, H) ==
  \E hdr \in H, uid \in UserIds :
    /\ HasLedger(variant)
    /\ FreeSlot(s)
    /\ IF Gate(users, hdr)
       THEN /\ req' = [req EXCEPT ![s] =
                 [IdleReq EXCEPT !.op = "getWatchlist", !.pc = "find",
                    !.userId = uid,
                    !.hdr = hdr, !.acct = AuthenticateUser(users, hdr),
                    !.authed = AuthenticateUser(users, hdr) # 0]]
            /\ UNCHANGED resp
       ELSE /\ resp' = Reply("getWatchlist", 401, ERR_AUTHENTICATION)
            /\ UNCHANGED req
    /\ UNCHANGED <<variant, users, watch, ratings, nextTok, nextCid, clock,
                   issued, loggedOut>>

GetWatchlistStart(s) == GetWatchlistStartIn(s, Credentials)

\* const userWatchlist = await WatchMovie.find(...);
\* res.status(200).json({ userWatchlist })
GetWatchlistFind(s) ==
  /\ req[s].op = "getWatchlist" /\ req[s].pc = "find"
  /\ resp' = [Reply("getWatchlist", 200, "") EXCEPT
                !.userId = req[s].userId,
                !.list = ListWanted(watch, req[s].userId)]
  /\ req' = [req EXCEPT ![s] = IdleReq]
  /\ UNCHANGED <<variant, users, watch, ratings, nextTok, nextCid, clock,
                 issued, loggedOut>>

(* ------------------------- GET /comments/:movieId --------------------- *)
\* Rating.find({ movieId }): the thread documents of the movie
FindRatings(r, m) ==
  LET OfMovie(d) == d.movieId = m
  IN  SelectSeq(r, OfMovie)

\* movieReviews.map(... comments.push(commentedMovie.comments));
\* [].concat.apply([], comments)
RECURSIVE Flatten(_)
Flatten(rs) ==
  IF rs = <<>> THEN <<>> ELSE Head(rs).comments \o Flatten(Tail(rs))

\* Array.prototype.sort with (a, b) => b.createdAt - a.createdAt: a stable
\* sort, the later createdAt first
RECURSIVE InsertComment(_, _)
InsertComment(sorted, c) ==
  IF sorted = <<>> THEN <<c>>
  ELSE IF c.createdAt - Head(sorted).createdAt <= 0
       THEN <<Head(sorted)>> \o InsertComment(Tail(sorted), c)
       ELSE <<c>> \o sorted

RECURSIVE SortComments(_)
SortComments(cs) ==
  IF cs = <<>> THEN <<>>
  ELSE InsertComment(SortComments(SubSeq(cs, 1, Len(cs) - 1)), cs[Len(cs)])

\* the array the body carries: sortedComments (the comments of all threads,
\* sorted) in the second snapshot, comments (the thread documents as found)
\* in the third
ListComments(v, r, m) ==
  IF v = "third" THEN FindRatings(r, m)
  ELSE SortComments(Flatten(FindRatings(r, m)))

BodyKey(v) == IF v = "third" THEN "comments" ELSE "sortedComments"

\* no middleware in front of the handler: the Authorization header is never
\* read, and the only store call is the find
GetCommentsIn(M) ==
  \E m \in M :
    /\ HasLedger(variant)
    /\ resp' = [Reply("getComments", 200, BodyKey(variant)) EXCEPT
                  !.movieId = m,
                  !.list = ListComments(variant, ratings, m)]
    /\ UNCHANGED <<variant, users, watch, ratings, req, nextTok, nextCid,
                   clock, issued, loggedOut>>

GetComments == GetCommentsIn(Movies)

(* ------------------------- store calls that fail --------------------- *)
\* A store call that fails is a rejected promise: the store did not apply
\* the operation.  In a handler the await sits in a try block, and the catch
\* answers; these are the status and the message of the catch around the
\* store call a request at (op, pc) is waiting for.
CatchStatus(op) == IF op \in {"getWatchlist", "getComments"} THEN 404 ELSE 400

CatchMessage(v, op, pc) ==
  CASE op \in {"getWatchlist", "getComments"} -> ERR_NO_DATA_FOUND
    [] op = "put" /\ pc \in {"create", "update"} -> ERR_UNABLE_TO_SAVE_ITEM
    [] op = "post" /\ v = "third" -> ERR_UNABLE_TO_SAVE_ITEM
    [] OTHER -> ERR_INVALID_REQUEST

\* the store call of a handler rejects: catch (err) { res.status(..).json(..) }
HandlerStoreFails(s) ==
  /\ req[s].op \in {"put", "post", "delete", "getWatchlist"}
  /\ req[s].pc \in {"find", "create", "update", "push", "pull"}
  /\ resp' = Reply(req[s].op, CatchStatus(req[s].op),
                   CatchMessage(variant, req[s].op, req[s].pc))
  /\ req' = [req EXCEPT ![s] = IdleReq]
  /\ UNCHANGED <<variant, users, watch, ratings, nextTok, nextCid, clock,
                 issued, loggedOut>>

\* Rating.find of GET /comments/:movieId rejects
GetCommentsFails ==
  /\ HasLedger(variant)
  /\ resp' = Reply("getComments", CatchStatus("getComments"),
                   CatchMessage(variant, "getComments", "find"))
  /\ UNCHANGED <<variant, users, watch, ratings, req, nextTok, nextCid, clock,
                 issued, loggedOut>>

\* User.findOne of authenticateUser rejects: the middleware is an async
\* function without try/catch, so neither next() nor res is called and the
\* rejection is unhandled; the request stays open and is never answered
GateStoreFails(s) ==
  \E op \in {"put", "post", "delete", "getWatchlist"} :
    /\ HasLedger(variant)
    /\ FreeSlot(s)
    /\ req' = [req EXCEPT ![s] =
                 [IdleReq EXCEPT !.op = op, !.pc = "unanswered"]]
    /\ UNCHANGED <<variant, users, watch, ratings, resp, nextTok, nextCid,
                   clock, issued, loggedOut>>

(* --------------------------- specifications --------------------------- *)
AllIdle == \A s \in Slots : Idle(s)

NextAuth ==
  \/ Signup
  \/ \E s \in Slots : LoginStart(s)
  \/ \E s \in Slots : LoginSave(s)
  \/ \E s \in Slots : LoginRespond(s)
  \/ \E s \in Slots : LogoutStart(s)
  \/ \E s \in Slots : LogoutUpdate(s)

\* the headers of the concurrent specifications: the token of the first
\* account, or no header
OneSession == {1, Undefined}

NextWatch ==
  \/ \E s \in Slots : PutStartIn(s, OneSession, {0} \cup UserIds)
  \/ \E s \in Slots : PutFind(s)
  \/ \E s \in Slots : PutCreate(s)
  \/ \E s \in Slots : PutUpdate(s)

NextComments ==
  \/ \E s \in Slots : PostStartIn(s, OneSession, Movies)
  \/ \E s \in Slots : PostFind(s)
  \/ \E s \in Slots : PostCreate(s)
  \/ \E s \in Slots : PostPush(s)
  \/ \E s \in Slots : DeleteStartIn(s, OneSession, Movies)
  \/ \E s \in Slots : DeletePull(s)

NextRead ==
  \/ \E s \in Slots : GetWatchlistStart(s)
  \/ \E s \in Slots : GetWatchlistFind(s)
  \/ GetComments

Next ==
  \/ NextAuth \/ NextWatch \/ NextComments \/ NextRead
  \/ \E s \in Slots : PutStart(s) \/ PostStart(s) \/ DeleteStart(s)

\* the whole server, from an empty store
Spec == Init /\ [][Next]_vars

\* accounts and sessions alone: the ledger collections stay empty
SpecAuth == Init /\ [][NextAuth]_vars

\* two registered accounts holding their signup tokens
InitLedger ==
  /\ variant \in {"second", "third"}
  /\ users = Inserted(variant,
               Inserted(variant, <<>>, <<"a", "l">>, <<"a", "@", "x", ".", "c">>,
                        Secret, 1),
               <<"b", "o">>, <<"b", "@", "x", ".", "c">>, Secret, 2)
  /\ watch = <<>>
  /\ ratings = <<>>
  /\ req = [s \in Slots |-> IdleReq]
  /\ resp = NoResp
  /\ nextTok = 3
  /\ nextCid = 1
  /\ clock = 0
  /\ issued = <<{1}, {2}>>
  /\ loggedOut = {}

\* concurrent watchlist requests of one session, for either owner
SpecWatch == InitLedger /\ [][NextWatch]_vars

\* concurrent comment requests of one session, for either owner
SpecComments == InitLedger /\ [][NextComments]_vars

\* the ledger requests, writes and reads, one after the other, all on one
\* movie, with the bodies the README documents: a request starts only when
\* no other request is in flight
NextSeq ==
  \/ AllIdle /\ PutStartIn(1, Credentials, {0})
  \/ PutFind(1)
  \/ PutCreate(1)
  \/ PutUpdate(1)
  \/ AllIdle /\ PostStartIn(1, Credentials, WatchMovies)
  \/ PostFind(1)
  \/ PostCreate(1)
  \/ PostPush(1)
  \/ AllIdle /\ DeleteStartIn(1, Credentials, WatchMovies)
  \/ DeletePull(1)
  \/ AllIdle /\ GetWatchlistStart(1)
  \/ GetWatchlistFind(1)
  \/ AllIdle /\ GetCommentsIn(WatchMovies)

SpecSeq == InitLedger /\ [][NextSeq]_vars

\* the ledger requests of one session, one after the other, with store
\* calls that may fail
NextFail ==
  \/ AllIdle /\ PutStartIn(1, OneSession, {0})
  \/ PutFind(1)
  \/ PutCreate(1)
  \/ PutUpdate(1)
  \/ AllIdle /\ PostStartIn(1, OneSession, WatchMovies)
  \/ PostFind(1)
  \/ PostCreate(1)
  \/ PostPush(1)
  \/ AllIdle /\ DeleteStartIn(1, OneSession, WatchMovies)
  \/ DeletePull(1)
  \/ AllIdle /\ GetWatchlistStartIn(1, OneSession)
  \/ GetWatchlistFind(1)
  \/ AllIdle /\ GetCommentsIn(WatchMovies)
  \/ HandlerStoreFails(1)
  \/ AllIdle /\ GetCommentsFails
  \/ AllIdle /\ GateStoreFails(1)

SpecFail == InitLedger /\ [][NextFail]_vars

(* ============================== claims ================================ *)
Tokens == 1..MaxTokens
LedgerOps == {"put", "post", "delete"}

\* C1: after a successful login for an account, every token issued to that
\* account before stops authenticating as it.
C1_LoginInvalidatesOldTokens ==
  [][(resp'.op = "login" /\ resp'.status = 201 /\ (resp' # resp \/ req' # req))
       => \A t \in issued[resp'.acct] \cap Tokens :
            AuthenticateUser(users', t) # resp'.acct]_vars

\* C2: once logout(T) has returned success for an issued token T, T never
\* authenticates again, whatever signups, logins and logouts follow.
C2_LoggedOutTokenStaysInvalid ==
  \A t \in loggedOut \cap Tokens : AuthenticateUser(users, t) = 0

\* a token was logged out and its account was given a new token by a login
C2_Witness ==
  \E t \in loggedOut \cap Tokens :
    /\ resp.op = "login" /\ resp.status = 201
    /\ t \in issued[resp.acct] /\ resp.token \in Tokens \ {t}

\* C3: no credential a client can present, the sentinel and the absent
\* header included, resolves to an account without an active session.
C3_NoSessionNeverAuthenticates ==
  \A hdr \in Credentials :
    LET a == AuthenticateUser(users, hdr)
    IN  a # 0 => users[a].accessToken \notin {Sentinel0, Null}

\* C4: a ledger write whose token fails authentication answers 401 and
\* changes no collection and starts no handler; no step of a request that
\* was not authenticated changes a collection.
C4_FailedAuthChangesNothing ==
  [][/\ (resp'.status = 401 /\ resp' # resp) => UNCHANGED <<db, req>>
     /\ \A s \in Slots : req'[s].op \in LedgerOps => req'[s].authed
     /\ \A s \in Slots :
          (req[s].op \in LedgerOps /\ ~req[s].authed) => UNCHANGED db]_vars

\* a comment removal was refused while both ledgers hold data
C4_Witness ==
  /\ resp.op = "delete" /\ resp.status = 401
  /\ watch # <<>>
  /\ \E i \in Ids(ratings) : ratings[i].comments # <<>>

\* C5: the watchlist never holds two entries for one (owner, movieId) pair.
C5_AtMostOneEntryPerPair ==
  \A i, j \in Ids(watch) :
    IsPair(watch[i], watch[j].userId, watch[j].movieId) => i = j

\* C6: when a setWanted(owner, movieId, v) issued after the previous request
\* has finished completes, the pair has exactly one entry and its flag is v.
C6_LastWriteWins ==
  [][\A s \in Slots :
       (req[s].op = "put" /\ req'[s].op = "idle") =>
         /\ Cardinality({i \in Ids(watch') :
               IsPair(watch'[i], req[s].userId, req[s].movieId)}) = 1
         /\ \A i \in Ids(watch') :
              IsPair(watch'[i], req[s].userId, req[s].movieId)
                => watch'[i].watchlist = req[s].watchlist]_vars

\* a second setWanted on a pair has just replaced the flag by another value
C6_Witness ==
  /\ resp.op = "put" /\ resp.error = "updated" /\ resp.nModified = 1
  /\ AllIdle

\* C7: a login right after a successful signup, with the same identity and
\* password, succeeds and returns a token other than the signup token.
C7_SignupThenLoginSucceeds ==
  \A u \in Usernames, e \in Emails, p \in Passwords :
    SignupOk(variant, users, u, e, p) =>
      LET after == Inserted(variant, users, u, e, p, nextTok)
          a == FindByUsername(variant, after, u)
      IN  /\ LoginCheck(variant, after, u, p) = "match"
          /\ a = Len(after)
          /\ NewToken(variant, after[a].accessToken, nextTok + 1) # nextTok

\* C8: for every payload, a failed login for an existing identity answers
\* what the same payload answers when no account exists.
C8_FailedLoginUniform ==
  \A u \in Usernames, p \in LoginPasswords :
    LoginCheck(variant, users, u, p) \notin {"match", "unknown"} =>
      LoginFailure(LoginCheck(variant, users, u, p))
        = LoginFailure(LoginCheck(variant, <<>>, u, p))

\* C9: no two accounts share an identity and no two accounts share an email.
C9_UniqueIdentityAndEmail ==
  \A i, j \in Ids(users) :
    i # j => /\ users[i].username # users[j].username
             /\ users[i].email # users[j].email

\* C10: no step changes the credentialHash of an existing account, and a new
\* account stores its (trimmed) password hashed exactly once; so a password
\* that logs in once keeps logging in.
C10_HashOnlyWhenPasswordSet ==
  [][/\ \A a \in Ids(users) : users'[a].password = users[a].password
     /\ \A a \in Ids(users') \ Ids(users) :
          \E p \in Passwords :
            users'[a].password = HashSync(SetPassword(variant, p))]_vars

\* an account has saved a rotated token twice, with a logout in between
C10_Witness ==
  /\ Rotates(variant)
  /\ resp.op = "login" /\ resp.status = 201
  /\ Cardinality(issued[resp.acct]) >= 3
  /\ loggedOut \cap issued[resp.acct] # {}

\* the entries of a watchlist (or the threads of a comment ledger) stored
\* for an (owner, movieId) pair
Entries(w, uid, m) == {i \in Ids(w) : w[i].userId = uid /\ w[i].movieId = m}

\* C11: a listWanted(owner) answers exactly the stored entries of that owner
\* whose flag is true, none of another owner; and once a setWanted(owner,
\* movieId, v) has completed, the movie is in the owner's list exactly when v
\* is true.
C11_ListWantedExact ==
  [][\A s \in Slots :
       /\ (req[s].op = "getWatchlist" /\ req'[s].op = "idle") =>
            /\ resp'.op = "getWatchlist" /\ resp'.status = 200
            /\ resp'.userId = req[s].userId
            /\ \A i \in Ids(resp'.list) :
                 /\ resp'.list[i].userId = req[s].userId
                 /\ resp'.list[i].watchlist
                 /\ \E j \in Ids(watch) : watch[j] = resp'.list[i]
            /\ Len(resp'.list) =
                 Cardinality({j \in Ids(watch) :
                    watch[j].userId = req[s].userId /\ watch[j].watchlist})
       /\ (req[s].op = "put" /\ req'[s].op = "idle") =>
            LET after == ListWanted(watch', req[s].userId)
            IN  (\E i \in Ids(after) : after[i].movieId = req[s].movieId)
                  <=> req[s].watchlist]_vars

\* a list came back empty for an owner whose entry is set to false, while
\* the other owner wants the same movie
C11_Witness ==
  /\ resp.op = "getWatchlist" /\ resp.status = 200 /\ resp.list = <<>>
  /\ \E i, j \in Ids(watch) :
       /\ watch[i].userId = resp.userId /\ ~watch[i].watchlist
       /\ watch[j].userId # resp.userId /\ watch[j].watchlist

C13_FalseStillCreates ==
  [][\A s \in Slots :
       /\ (/\ req[s].op = "put" /\ req[s].pc = "find" /\ req'[s] # req[s]
           /\ Entries(watch, req[s].userId, req[s].movieId) = {})
            => req'[s].pc = "create"
       /\ (/\ req[s].op = "put" /\ req[s].pc = "create" /\ req'[s].op = "idle"
           /\ ~req[s].watchlist) =>
            /\ resp'.error = "created"
            /\ Len(watch') = Len(watch) + 1
            /\ watch'[Len(watch')] = [userId |-> req[s].userId,
                                      movieId |-> req[s].movieId,
                                      watchlist |-> FALSE]
            /\ SubSeq(watch', 1, Len(watch)) = watch
            /\ LET after == ListWanted(watch', req[s].userId)
               IN  \A i \in Ids(after) : after[i].movieId # req[s].movieId]_vars

\* the second entry of the watchlist was created by a setWanted with false
C13_Witness ==
  /\ resp.op = "put" /\ resp.error = "created" /\ AllIdle
  /\ Len(watch) = 2 /\ ~watch[2].watchlist

\* the ids of the comments stored under a movie, over all its threads
StoredIds(r, m) ==
  UNION {{r[i].comments[k].id : k \in Ids(r[i].comments)} :
           i \in {j \in Ids(r) : r[j].movieId = m}}

\* C14: the array listComments(movieId) answers is flat (each element a
\* comment), holds every comment stored under the movie once, and is ordered
\* by createdAt descending, comments of equal createdAt in insertion order.
C14_ListCommentsSortedStable ==
  [][(resp'.op = "getComments" /\ resp' # resp) =>
       LET L == resp'.list
       IN  /\ \A i \in Ids(L) : DOMAIN L[i] = {"id", "createdAt"}
           /\ {L[i].id : i \in Ids(L)} = StoredIds(ratings, resp'.movieId)
           /\ Len(L) = Cardinality(StoredIds(ratings, resp'.movieId))
           /\ \A i, j \in Ids(L) :
                i < j => \/ L[i].createdAt > L[j].createdAt
                         \/ /\ L[i].createdAt = L[j].createdAt
                            /\ L[i].id < L[j].id]_vars

\* the ids of the comments in the threads of an (owner, movieId) key
KeyIds(r, uid, m) ==
  UNION {{r[i].comments[k].id : k \in Ids(r[i].comments)} :
           i \in Entries(r, uid, m)}

\* a sequence of comments without the comment of a given id
Without(cs, cid) ==
  LET Keep(c) == c.id # cid
  IN  SelectSeq(cs, Keep)

\* C15: a removeComment(movieId, ownerId, commentId) takes the comment of
\* that id out of the threads of (ownerId, movieId) and changes nothing else:
\* every thread keeps its other comments in order, threads of other keys are
\* as before, and the array listComments answers for each movie is the one
\* it answered before without that comment.
C15_RemoveExactlyOne ==
  [][\A s \in Slots :
       (req[s].op = "delete" /\ req'[s].op = "idle") =>
         LET uid == req[s].userId
             m == req[s].movieId
             cid == req[s].cid
             removed == cid \in KeyIds(ratings, uid, m)
         IN  /\ Len(ratings') = Len(ratings)
             /\ cid \notin KeyIds(ratings', uid, m)
             /\ \A i \in Ids(ratings) :
                  IF IsPair(ratings[i], uid, m)
                  THEN ratings'[i] =
                         [ratings[i] EXCEPT !.comments = Without(@, cid)]
                  ELSE ratings'[i] = ratings[i]
             /\ \A k \in Movies :
                  LET before == ListComments(variant, ratings, k)
                      after == ListComments(variant, ratings', k)
                  IN  IF variant = "third"
                      THEN /\ Len(after) = Len(before)
                           /\ \A i \in Ids(before) :
                                after[i].comments =
                                  IF IsPair(before[i], uid, m)
                                  THEN Without(before[i].comments, cid)
                                  ELSE before[i].comments
                      ELSE after = IF removed /\ k = m
                                   THEN Without(before, cid) ELSE before]_vars

\* one of two comments of a thread has been removed, the other is still there
C15_Witness ==
  /\ resp.op = "delete" /\ resp.nModified = 1
  /\ nextCid > 2
  /\ \E i \in Ids(ratings) : Len(ratings[i].comments) = 1

GatedOps == {"put", "post", "delete", "getWatchlist"}

\* C16: a listComments answers 200 whatever the request carries; a
\* setWanted, listWanted, addComment or removeComment gets past the gate, and
\* gets an answer other than 401, only when the Authorization header it
\* presented is the token of an account with an active session.
C16_ReadsPublicRestGated ==
  [][/\ (resp'.op = "getComments" /\ resp' # resp) => resp'.status = 200
     /\ \A s \in Slots :
          req'[s].op \in GatedOps =>
            /\ req'[s].hdr \notin {Sentinel0, Null, Undefined}
            /\ \E a \in Ids(users) : users[a].accessToken = req'[s].hdr
     /\ (resp' # resp /\ resp'.op \in GatedOps /\ resp'.status # 401) =>
          \E s \in Slots :
            /\ req[s].op = resp'.op /\ req'[s].op = "idle"
            /\ \E a \in Ids(users) : users[a].accessToken = req[s].hdr]_vars

\* a watchlist read was refused while both ledgers hold data
C16_Witness ==
  /\ resp.op = "getWatchlist" /\ resp.status = 401
  /\ \E i \in Ids(watch) : watch[i].watchlist
  /\ \E i \in Ids(ratings) : ratings[i].comments # <<>>

\* C17: a setWanted that updates an existing entry leaves the number of
\* entries, every entry's owner and movieId, and every entry of another pair
\* as they were, whatever the body carries.
C17_UpdateChangesOnlyFlag ==
  [][\A s \in Slots :
       (req[s].op = "put" /\ req[s].pc = "update" /\ req'[s].op = "idle") =>
         /\ Len(watch') = Len(watch)
         /\ \A i \in Ids(watch) :
              /\ watch'[i].userId = watch[i].userId
              /\ watch'[i].movieId = watch[i].movieId
              /\ ~IsPair(watch[i], req[s].userId, req[s].movieId)
                   => watch'[i] = watch[i]]_vars

\* the ids of the comments in the array listComments answers for a movie
Listed(v, r, m) ==
  LET L == ListComments(v, r, m)
  IN  IF v = "third"
      THEN UNION {{L[i].comments[k].id : k \in Ids(L[i].comments)} :
                    i \in Ids(L)}
      ELSE {L[i].id : i \in Ids(L)}

\* C18: an addComment that answers success has put its comment in the array
\* listComments answers for the movie, and a comment listed for a movie
\* stays listed until a removeComment for its id completes, in every
\* interleaving of the requests.
C18_AppendNeverDrops ==
  [][/\ \A s \in Slots :
          (req[s].op = "post" /\ req'[s].op = "idle") =>
            /\ resp'.op = "post" /\ resp'.status = 201
            /\ nextCid \in Listed(variant, ratings', req[s].movieId)
            /\ nextCid \notin Listed(variant, ratings, req[s].movieId)
     /\ \A m \in Movies :
          \A c \in Listed(variant, ratings, m) :
            \/ c \in Listed(variant, ratings', m)
            \/ \E s \in Slots :
                 /\ req[s].op = "delete" /\ req'[s].op = "idle"
                 /\ req[s].cid = c /\ req[s].movieId = m]_vars

\* two addComment calls of the second snapshot raced on creating the thread
\* of one key, and both comments are listed
C18_Witness ==
  /\ variant = "second"
  /\ \E i, j \in Ids(ratings) :
       /\ i # j
       /\ IsPair(ratings[i], ratings[j].userId, ratings[j].movieId)
       /\ Cardinality(Listed(variant, ratings, ratings[i].movieId)) = 2

\* C19: the comment ledger never holds two thread records for one (owner,
\* movieId) key.
C19_AtMostOneThreadPerKey ==
  \A i, j \in Ids(ratings) :
    IsPair(ratings[i], ratings[j].userId, ratings[j].movieId) => i = j

\* C20: a setWanted issued after the previous request has finished answers
\* "created" exactly when the pair had no entry and "updated" exactly when it
\* had one; afterwards the pair has an entry, and entries are never removed,
\* so at most one call for a pair answers "created".
C20_CreatedOnlyOnce ==
  [][/\ \A s \in Slots :
          (req[s].op = "put" /\ req'[s].op = "idle") =>
            /\ resp'.op = "put" /\ resp'.error \in {"created", "updated"}
            /\ resp'.error = "created"
                 <=> Entries(watch, req[s].userId, req[s].movieId) = {}
            /\ Entries(watch', req[s].userId, req[s].movieId) # {}
     /\ \A uid \in UserIds, m \in Movies :
          Entries(watch, uid, m) # {} => Entries(watch', uid, m) # {}]_vars

\* both owners have an entry and the last setWanted answered "updated"
C20_Witness ==
  /\ resp.op = "put" /\ resp.error = "updated" /\ AllIdle
  /\ Len(watch) = 2

\* C21: a removeComment whose commentId is not in the threads of (ownerId,
\* movieId) leaves the comment ledger as it was and answers a result with
\* nModified 0, a removeComment that removes a comment answers nModified 1:
\* the caller can tell the two apart.
C21_NoRemovalIsTold ==
  [][\A s \in Slots :
       (req[s].op = "delete" /\ req'[s].op = "idle") =>
         /\ resp'.op = "delete" /\ resp'.status = 200
         /\ IF req[s].cid \in KeyIds(ratings, req[s].userId, req[s].movieId)
            THEN ratings' # ratings /\ resp'.nModified = 1
            ELSE ratings' = ratings /\ resp'.nModified = 0]_vars

\* a removeComment named an id that is not in the thread, while the thread
\* of some key holds a comment
C21_Witness ==
  /\ resp.op = "delete" /\ resp.status = 200 /\ resp.nModified = 0
  /\ nextCid = 2
  /\ \E i \in Ids(ratings) : Len(ratings[i].comments) = 1

\* C22: no request ends without a response: a request whose store call
\* failed, the token lookup of authenticate included, is answered.
C22_EveryRequestAnswered ==
  \A s \in Slots : req[s].pc # "unanswered"

\* C26: when the append step of an addComment fails, the comment ledger is
\* left as it was before the step, with the thread of the key in it and no
\* trace of the comment, and the caller gets an error; threads are never
\* removed or given another key, and an addComment that succeeds appends to
\* the first thread of its key, which is the thread a failed first
\* addComment for the key left.
C26_FailedAppendLeavesThread ==
  [][/\ Len(ratings') >= Len(ratings)
     /\ \A i \in Ids(ratings) :
          IsPair(ratings'[i], ratings[i].userId, ratings[i].movieId)
     /\ \A s \in Slots :
          (req[s].op = "post" /\ req[s].pc = "push" /\ req'[s].op = "idle") =>
            LET K == Entries(ratings, req[s].userId, req[s].movieId)
            IN  /\ K # {}
                /\ resp'.op = "post"
                /\ IF resp'.status = 201
                   THEN \E k \in K :
                          /\ \A j \in K : k <= j
                          /\ ratings' =
                               [ratings EXCEPT ![k].comments =
                                  Append(@, [id |-> nextCid,
                                             createdAt |-> clock'])]
                   ELSE /\ resp'.status = 400
                        /\ resp'.error \in {ERR_INVALID_REQUEST,
                                             ERR_UNABLE_TO_SAVE_ITEM}
                        /\ ratings' = ratings]_vars

\* an addComment created the thread of its key and its append failed: a
\* thread is stored, no comment has been stored yet, the answer is an error
C26_Witness ==
  /\ resp.op = "post" /\ resp.status = 400 /\ AllIdle
  /\ nextCid = 1
  /\ \E i \in Ids(ratings) : ratings[i].comments = <<>>

\* C23: the token a successful signup or login answers authenticates as the
\* account it was issued to when the response is produced, and the token an
\* account holds stays its token until a login or a logout of that account
\* writes another one.
C23_ReturnedTokenAuthenticates ==
  [][/\ (\/ resp' # resp
         \/ \E s \in Slots : req[s].op = "login" /\ req'[s].op = "idle")
          => ((resp'.op \in {"signup", "login"} /\ resp'.status = 201)
                => AuthenticateUser(users', resp'.token) = resp'.acct)
     /\ \A a \in Ids(users) :
          users'[a].accessToken # users[a].accessToken =>
            \E s \in Slots :
              /\ req[s].op \in {"login", "logout"} /\ req'[s] # req[s]
              /\ req[s].acct = a]_vars

\* C24: a login that answers a failure changes no account and schedules no
\* save; a login goes on to save only for an existing account whose stored
\* hash is the hash of the password it sent; and its save changes nothing
\* but the token of that account.
C24_FailedLoginChangesNothing ==
  [][/\ (resp' # resp /\ resp'.op = "login" /\ resp'.status = 404)
          => (users' = users /\ req' = req)
     /\ \A s \in Slots :
          (req[s].op = "idle" /\ req'[s].op = "login") =>
            /\ users' = users
            /\ req'[s].acct \in Ids(users)
            /\ users[req'[s].acct].password = HashSync(req'[s].password)
     /\ \A s \in Slots :
          (req[s].op = "login" /\ req[s].pc = "save" /\ req'[s] # req[s]) =>
            /\ \A a \in Ids(users) :
                 a # req[s].acct => users'[a] = users[a]
            /\ users'[req[s].acct] =
                 [users[req[s].acct] EXCEPT !.accessToken = req[s].token]]_vars

\* a login with a wrong password for an account that holds a token has just
\* been refused, and the token still authenticates as the account
C24_Witness ==
  /\ resp.op = "login" /\ resp.status = 404 /\ resp.error = ERR_LOGIN_FAILED
  /\ resp.acct # 0 /\ resp.acct \in Ids(users)
  /\ users[resp.acct].accessToken \in Tokens
  /\ AuthenticateUser(users, users[resp.acct].accessToken) = resp.acct
  /\ Cardinality(issued[resp.acct]) >= 2

\* C25: a write that passed the gate acts on the owner its request names:
\* the entry or thread it creates carries the userId of the request, and the
\* only entries and threads it changes are those of that userId, whichever
\* account the token resolved to.
C25_WritesActOnNamedOwner ==
  [][\A s \in Slots :
       /\ (req[s].op = "put" /\ req[s].pc = "create" /\ req'[s].op = "idle") =>
            /\ Len(watch') = Len(watch) + 1
            /\ SubSeq(watch', 1, Len(watch)) = watch
            /\ watch'[Len(watch')].userId = req[s].userId
       /\ (req[s].op = "put" /\ req[s].pc = "update" /\ req'[s].op = "idle") =>
            /\ Len(watch') = Len(watch)
            /\ \A i \in Ids(watch) :
                 watch'[i] # watch[i] => watch[i].userId = req[s].userId
       /\ (req[s].op = "post" /\ req[s].pc = "create" /\ req'[s] # req[s]) =>
            /\ Len(ratings') = Len(ratings) + 1
            /\ SubSeq(ratings', 1, Len(ratings)) = ratings
            /\ ratings'[Len(ratings')].userId = req[s].userId
       /\ (req[s].op \in {"post", "delete"} /\ req[s].pc \in {"push", "pull"}
             /\ req'[s].op = "idle") =>
            /\ Len(ratings') = Len(ratings)
            /\ \A i \in Ids(ratings) :
                 ratings'[i] # ratings[i] => ratings[i].userId = req[s].userId]_vars

\* a request with the token of one account has created the first thread of
\* the ledger under the other owner and is about to append to it
C25_Witness ==
  \E s \in Slots :
    /\ req[s].op = "post" /\ req[s].pc = "push"
    /\ req[s].acct \in Ids(users) /\ req[s].acct # req[s].userId
    /\ nextCid = 1 /\ Len(ratings) = 1
    /\ ratings[1].userId = req[s].userId
    /\ \E i \in Ids(watch) : watch[i].userId # req[s].acct
====
